---- MODULE Spec2Model ----
(***************************************************************************)
(* Incremental MySQL -> CSV -> GCS backup job (main.py).                   *)
(*                                                                         *)
(* One run of the script is: module-level configuration check and          *)
(* directory creation, then main(): authenticate, connect, loop over       *)
(* TABLES, close the connection.  Every statement of the loop body that    *)
(* can raise is one step of the model with a success and a failure         *)
(* outcome; the except clause of the loop body sends a failure to the      *)
(* next iteration.  Runs are sequential (a scheduled batch job); the       *)
(* database is written by its environment between runs.                    *)
(*                                                                         *)
(* Timestamps are naturals: 0 is datetime.datetime.min, positive values    *)
(* are the updated_at values of rows.  A row is a record [id, updated_at]. *)
(***************************************************************************)
EXTENDS Integers, Sequences, FiniteSets, TLC

\* ---------------------------------------------------------------- bounds
NumTables == 2      \* how many entries of TABLES are modelled
MaxWrites == 2      \* row insertions/updates the environment performs
MaxRuns == 2        \* number of sequential runs of the script

\* ------------------------------------------------------------- constants
AllTables == <<"users", "discounts", "products", "orders", "order_details",
               "payouts", "payout_payments", "payout_resellers">>

TABLES == SubSeq(AllTables, 1, NumTables)

TableSet == {TABLES[k] : k \in 1..Len(TABLES)}

\* MaxWrites writes create at most MaxWrites keys and MaxWrites distinct
\* updated_at values, so these ranges lose no behaviour
Ids == 1..MaxWrites

Stamps == 1..MaxWrites

dt_min == 0

None == "None"

EnvValues == {None, "", "set"}

EnvNames == {"DB_HOST", "DB_USER", "DB_PASSWORD", "DB_NAME", "GCS_BUCKET_NAME"}

AllEnvs == [EnvNames -> EnvValues]

\* the environments with a password in which at most one name is missing
\* or empty
MainEnvs ==
    {e \in AllEnvs : /\ e["DB_PASSWORD"] = "set"
                      /\ Cardinality({n \in EnvNames : e[n] # "set"}) <= 1}

\* ---------------------------------------------------------- pure helpers
DigitChars == <<"0", "1", "2", "3", "4", "5", "6", "7", "8", "9">>

RECURSIVE isoformat(_)
\* timestamp.isoformat(): the text written to the checkpoint file
isoformat(ts) ==
    IF ts < 10 THEN <<DigitChars[ts + 1]>>
    ELSE isoformat(ts \div 10) \o <<DigitChars[(ts % 10) + 1]>>

DigitValue(c) == (CHOOSE k \in 1..10 : DigitChars[k] = c) - 1

IsDigit(c) == \E k \in 1..10 : DigitChars[k] = c

RECURSIVE strip(_)
\* str.strip(): drop leading and trailing whitespace
strip(s) ==
    IF s = <<>> THEN s
    ELSE IF Head(s) = " " THEN strip(Tail(s))
    ELSE IF s[Len(s)] = " " THEN strip(SubSeq(s, 1, Len(s) - 1))
    ELSE s

\* whether datetime.fromisoformat() accepts the text (else ValueError)
ParsesAsIso(s) == s # <<>> /\ \A k \in 1..Len(s) : IsDigit(s[k])

RECURSIVE fromisoformat(_)
\* datetime.fromisoformat() of a text it accepts
fromisoformat(s) ==
    IF Len(s) = 1 THEN DigitValue(s[1])
    ELSE fromisoformat(SubSeq(s, 1, Len(s) - 1)) * 10 + DigitValue(s[Len(s)])

\* a file of TIMESTAMP_DIR: absent, or present with a text
NoFile == [exists |-> FALSE, text |-> <<>>]

FileOf(text) == [exists |-> TRUE, text |-> text]

\* get_last_timestamp raises when the stripped text is not empty and does
\* not parse
get_last_timestamp_raises(file) ==
    file.exists /\ strip(file.text) # <<>> /\ ~ParsesAsIso(strip(file.text))

\* get_last_timestamp(table_name) as a function of the checkpoint file
get_last_timestamp(file) ==
    IF ~file.exists THEN dt_min
    ELSE IF strip(file.text) # <<>> THEN fromisoformat(strip(file.text))
    ELSE dt_min

\* all([DB_HOST, DB_USER, DB_NAME, GCS_BUCKET_NAME]): None and "" are falsy
ConfigOkNoBucket(e) ==
    \A n \in {"DB_HOST", "DB_USER", "DB_NAME"} : e[n] \notin {None, ""}

ConfigOk(e) ==
    \A n \in {"DB_HOST", "DB_USER", "DB_NAME", "GCS_BUCKET_NAME"} :
        e[n] \notin {None, ""}

\* rows of a table: the set of [id, updated_at] of the keys that exist
TableRows(tbl) == {[id |-> k,
updated_at |-> tbl[k]] : k \in {j \in Ids : tbl[j] # 0}}

SetMax(S) == CHOOSE m \in S : \A x \in S : x <= m

SetMin(S) == CHOOSE m \in S : \A x \in S : m <= x

\* SELECT * FROM t WHERE updated_at > %s ORDER BY updated_at ASC
ExecuteQueryLatestOnly(tbl, last) ==
    {r \in TableRows(tbl) : r.updated_at > last
        /\ \A q \in TableRows(tbl) : q.updated_at <= r.updated_at}

ExecuteQuery(tbl, last) == {r \in TableRows(tbl) : r.updated_at > last}

\* "if not rows"
NoRowsNever(rs) == FALSE

NoRows(rs) == rs = {}

\* df['updated_at'].max()
HighWaterMarkMin(rs) == SetMin({r.updated_at : r \in rs})

HighWaterMark(rs) == SetMax({r.updated_at : r \in rs})

\* ------------------------------------------------------------------ state
VARIABLES
    pc,             \* statement the process is at; "idle" when there is none
    run,            \* number of runs started
    env,            \* what load_dotenv() and os.getenv give the script
    exit_status,    \* exit status of the process once it ended: "0" or "1"
    dirs,           \* TRUE once TIMESTAMP_DIR and EXPORT_DIR exist
    writes,         \* number of writes made to the database
    db,             \* db[t][id]: updated_at of the row, 0 when there is none
    ckpt,           \* ckpt[t]: the file timestamps/<t>_last_run.txt
    exports,        \* names of the files of EXPORT_DIR written by this run
    remote,         \* objects of the bucket: records [key, body]
    i,              \* position of the for loop in TABLES (0 before the first)
    last_timestamp, \* local of main()
    rows,           \* local of main()
    file_name,      \* local of main()
    calls,          \* run history: process-level calls of this run, in order
    attempted,      \* run history: tables the loop body was entered for
    failed,         \* history of the current table: the statement that raised
    firstRaised,    \* run history: position of the first table that raised
    ev,             \* history of the current table: statements that completed
    ckpt0,          \* history of the current table: its checkpoint on entry
    exports0,       \* history of the current table: EXPORT_DIR on entry
    crashInfo       \* history: a kill between upload and checkpoint write

vars == <<pc, run, env, exit_status, dirs, writes, db, ckpt, exports,
          remote, i, last_timestamp, rows, file_name, calls, attempted,
          failed, firstRaised, ev, ckpt0, exports0, crashInfo>>

\* value of file_name before it is assigned
NoName == <<>>

NoCrash == [valid |-> FALSE, tbl |-> "", last |-> 0, ids |-> {}]

\* pc values at which the process has ended and its exit status is known
Terminated == {"exited", "returned", "done"}

\* pc values inside main()
InMain == {"auth", "connect", "for", "get_last_timestamp", "execute",
           "skip_close", "to_csv", "upload", "save", "cursor_close", "remove",
           "cnx_close"}

table_name == TABLES[i]

\* the state before the first run, but for the environment
Fresh ==
    /\ pc = "idle"
    /\ exit_status = "none"
    /\ dirs = FALSE
    /\ writes = 0
    /\ db = [t \in TableSet |-> [k \in Ids |-> 0]]
    /\ ckpt = [t \in TableSet |-> NoFile]
    /\ exports = {}
    /\ remote = {}
    /\ i = 0
    /\ last_timestamp = dt_min
    /\ rows = {}
    /\ file_name = NoName
    /\ calls = <<>>
    /\ attempted = <<>>
    /\ failed = "none"
    /\ firstRaised = 0
    /\ ev = {}
    /\ ckpt0 = NoFile
    /\ exports0 = {}
    /\ crashInfo = NoCrash

Init ==
    /\ Fresh
    /\ run = 0
    /\ env \in MainEnvs

\* every environment, one run
InitAnyEnv ==
    /\ Fresh
    /\ run = MaxRuns - 1
    /\ env \in AllEnvs

\* ---------------------------------------------------------- control flow
\* the statement that follows a statement of the loop body that returned
StepAfterSaveFirst(step) ==
    CASE step = "get_last_timestamp" -> "execute"
      [] step = "execute" -> "to_csv"
      [] step = "to_csv" -> "save"
      [] step = "save" -> "upload"
      [] step = "upload" -> "cursor_close"
      [] step = "cursor_close" -> "remove"
      [] step = "remove" -> "for"

StepAfter(step) ==
    CASE step = "get_last_timestamp" -> "execute"
      [] step = "execute" -> "to_csv"
      [] step = "to_csv" -> "upload"
      [] step = "upload" -> "save"
      [] step = "save" -> "cursor_close"
      [] step = "cursor_close" -> "remove"
      [] step = "remove" -> "for"

\* where "except Exception" of the loop body leaves control: the next
\* iteration of the for loop
HandlerPcAbort == "cnx_close"

HandlerPc == "for"

\* where a failed storage.Client() leaves control: main() returns
AuthFailPc == "returned"

\* where a failed mysql.connector.connect() leaves control: main() returns
ConnectFailPcContinue == "for"

ConnectFailPc == "returned"

\* datetime.datetime.now() to the second.  Two runs are taken to reach this
\* statement in different seconds, so the time of a run is its number.
Now == run

\* f"{table_name}_{current_time.strftime('%Y-%m-%d_%H%M%S')}.csv"
FileName(t, now) == <<t, now>>

\* f"{table_name}/{file_name}"
destination_blob_name(t, name) == <<t, name>>

\* the statement raised: the handler logs it and the loop goes on
Raise(step) ==
    /\ pc' = HandlerPc
    /\ failed' = step
    /\ firstRaised' = IF firstRaised = 0 THEN i ELSE firstRaised

\* the statement returned
Return(step) ==
    /\ pc' = StepAfter(step)
    /\ ev' = ev \cup {step}
    /\ UNCHANGED <<failed, firstRaised>>

\* what no statement of the loop body changes
Outside == <<run, env, exit_status, dirs, writes, db, i, calls,
             attempted, ckpt0, exports0, crashInfo>>

\* -------------------------------------------------------------- actions
\* the scheduler starts the script
StartRun ==
    /\ pc = "idle"
    /\ run < MaxRuns
    /\ run' = run + 1
    /\ pc' = "module"
    /\ UNCHANGED <<env, exit_status, dirs, writes, db, ckpt, exports, remote, i,
                   last_timestamp, rows, file_name, calls, attempted, failed,
                   firstRaised, ev, ckpt0, exports0, crashInfo>>

\* module level: the check of the environment fails, exit(1)
ConfigExit ==
    /\ pc = "module"
    /\ ~ConfigOk(env)
    /\ pc' = "exited"
    /\ exit_status' = "1"
    /\ crashInfo' = NoCrash
    /\ UNCHANGED <<run, env, dirs, writes, db, ckpt, exports, remote, i,
                   last_timestamp, rows, file_name, calls, attempted, failed,
                   firstRaised, ev, ckpt0, exports0>>

\* module level: the check passes, os.makedirs of both directories, main()
ConfigPass ==
    /\ pc = "module"
    /\ ConfigOk(env)
    /\ dirs' = TRUE
    /\ calls' = Append(calls, "makedirs")
    /\ pc' = "auth"
    /\ UNCHANGED <<run, env, exit_status, writes, db, ckpt, exports,
                   remote, i, last_timestamp, rows, file_name, attempted,
                   failed, firstRaised, ev, ckpt0, exports0, crashInfo>>

AuthOk ==
    /\ pc = "auth"
    /\ calls' = Append(calls, "storage.Client")
    /\ pc' = "connect"
    /\ UNCHANGED <<run, env, exit_status, dirs, writes, db, ckpt, exports,
                   remote, i, last_timestamp, rows, file_name, attempted,
                   failed, firstRaised, ev, ckpt0, exports0, crashInfo>>

AuthFail ==
    /\ pc = "auth"
    /\ calls' = Append(calls, "storage.Client raised")
    /\ pc' = AuthFailPc
    /\ exit_status' = IF pc' = "returned" THEN "0" ELSE exit_status
    /\ crashInfo' = NoCrash
    /\ UNCHANGED <<run, env, dirs, writes, db, ckpt, exports,
                   remote, i, last_timestamp, rows, file_name, attempted,
                   failed, firstRaised, ev, ckpt0, exports0>>

ConnectOk ==
    /\ pc = "connect"
    /\ calls' = Append(calls, "connect")
    /\ pc' = "for"
    /\ UNCHANGED <<run, env, exit_status, dirs, writes, db, ckpt, exports,
                   remote, i, last_timestamp, rows, file_name, attempted,
                   failed, firstRaised, ev, ckpt0, exports0, crashInfo>>

ConnectFail ==
    /\ pc = "connect"
    /\ calls' = Append(calls, "connect raised")
    /\ pc' = ConnectFailPc
    /\ exit_status' = IF pc' = "returned" THEN "0" ELSE exit_status
    /\ crashInfo' = NoCrash
    /\ UNCHANGED <<run, env, dirs, writes, db, ckpt, exports,
                   remote, i, last_timestamp, rows, file_name, attempted,
                   failed, firstRaised, ev, ckpt0, exports0>>

\* "for table_name in TABLES": the next table
NextTable ==
    /\ pc = "for"
    /\ i < Len(TABLES)
    /\ i' = i + 1
    /\ attempted' = Append(attempted, TABLES[i + 1])
    /\ last_timestamp' = dt_min
    /\ rows' = {}
    /\ file_name' = NoName
    /\ ev' = {}
    /\ failed' = "none"
    /\ ckpt0' = ckpt[TABLES[i + 1]]
    /\ exports0' = exports
    /\ pc' = "get_last_timestamp"
    /\ UNCHANGED <<run, env, exit_status, dirs, writes, db, ckpt, exports,
                   remote, calls, firstRaised, crashInfo>>

\* "for table_name in TABLES": exhausted.  Nothing reads the locals of the
\* loop body any more; they and the history of the last table are cleared.
LoopEnd ==
    /\ pc = "for"
    /\ i = Len(TABLES)
    /\ pc' = "cnx_close"
    /\ last_timestamp' = dt_min
    /\ rows' = {}
    /\ file_name' = NoName
    /\ ev' = {}
    /\ failed' = "none"
    /\ ckpt0' = NoFile
    /\ exports0' = {}
    /\ UNCHANGED <<run, env, exit_status, dirs, writes, db, ckpt, exports,
                   remote, i, calls, attempted, firstRaised, crashInfo>>

\* last_timestamp = get_last_timestamp(table_name)
GetLastTimestampOk ==
    /\ pc = "get_last_timestamp"
    /\ ~get_last_timestamp_raises(ckpt[table_name])
    /\ last_timestamp' = get_last_timestamp(ckpt[table_name])
    /\ Return("get_last_timestamp")
    /\ UNCHANGED <<Outside, ckpt, exports, remote, rows, file_name>>

\* open() or fromisoformat() raises
GetLastTimestampFail ==
    /\ pc = "get_last_timestamp"
    /\ Raise("get_last_timestamp")
    /\ UNCHANGED <<Outside, ckpt, exports, remote, last_timestamp, rows,
                   file_name, ev>>

\* cnx.cursor(), cursor.execute(query, (last_timestamp,)), cursor.fetchall()
\* and the test "if not rows"
ExecuteOk ==
    /\ pc = "execute"
    /\ rows' = ExecuteQuery(db[table_name], last_timestamp)
    /\ ev' = ev \cup {"execute"}
    /\ pc' = IF NoRows(rows') THEN "skip_close" ELSE StepAfter("execute")
    /\ UNCHANGED <<Outside, ckpt, exports, remote, last_timestamp, file_name,
                   failed, firstRaised>>

ExecuteFail ==
    /\ pc = "execute"
    /\ Raise("execute")
    /\ UNCHANGED <<Outside, ckpt, exports, remote, last_timestamp, rows,
                   file_name, ev>>

\* no rows: cursor.close(); continue
NoNewData ==
    /\ pc = "skip_close"
    /\ pc' = "for"
    /\ ev' = ev \cup {"skip_close"}
    /\ UNCHANGED <<Outside, ckpt, exports, remote, last_timestamp, rows,
                   file_name, failed, firstRaised>>

NoNewDataCloseFail ==
    /\ pc = "skip_close"
    /\ Raise("skip_close")
    /\ UNCHANGED <<Outside, ckpt, exports, remote, last_timestamp, rows,
                   file_name, ev>>

\* pd.DataFrame(rows), the file name from datetime.now(), df.to_csv
ToCsvOk ==
    /\ pc = "to_csv"
    /\ file_name' = FileName(table_name, Now)
    /\ exports' = exports \cup {file_name'}
    /\ Return("to_csv")
    /\ UNCHANGED <<Outside, ckpt, remote, last_timestamp, rows>>

\* to_csv raises before it created the file, or after (a partial file)
ToCsvFail ==
    /\ pc = "to_csv"
    /\ file_name' = FileName(table_name, Now)
    /\ \E partial \in BOOLEAN :
          exports' = IF partial THEN exports \cup {file_name'} ELSE exports
    /\ Raise("to_csv")
    /\ UNCHANGED <<Outside, ckpt, remote, last_timestamp, rows, ev>>

\* bucket.blob(destination_blob_name).upload_from_filename(file_path)
UploadOk ==
    /\ pc = "upload"
    /\ LET key == destination_blob_name(table_name, file_name)
       IN  remote' = {o \in remote : o.key # key}
                        \cup {[key |-> key, body |-> rows]}
    /\ Return("upload")
    /\ UNCHANGED <<Outside, ckpt, exports, last_timestamp, rows, file_name>>

UploadFail ==
    /\ pc = "upload"
    /\ Raise("upload")
    /\ UNCHANGED <<Outside, ckpt, exports, remote, last_timestamp, rows,
                   file_name, ev>>

\* new_high_water_mark = df['updated_at'].max()
\* save_current_timestamp(table_name, new_high_water_mark)
SaveOk ==
    /\ pc = "save"
    /\ rows # {}
    /\ ckpt' = [ckpt EXCEPT
                   ![table_name] = FileOf(isoformat(HighWaterMark(rows)))]
    /\ Return("save")
    /\ UNCHANGED <<Outside, exports, remote, last_timestamp, rows, file_name>>

\* open(timestamp_file, 'w') raises (the file is as it was), or f.write
\* raises after open truncated the file
SaveFail ==
    /\ pc = "save"
    /\ \E truncated \in BOOLEAN :
          ckpt' = IF truncated THEN [ckpt EXCEPT ![table_name] = FileOf(<<>>)]
                  ELSE ckpt
    /\ Raise("save")
    /\ UNCHANGED <<Outside, exports, remote, last_timestamp, rows, file_name,
                   ev>>

\* cursor.close()
CursorCloseOk ==
    /\ pc = "cursor_close"
    /\ Return("cursor_close")
    /\ UNCHANGED <<Outside, ckpt, exports, remote, last_timestamp, rows,
                   file_name>>

CursorCloseFail ==
    /\ pc = "cursor_close"
    /\ Raise("cursor_close")
    /\ UNCHANGED <<Outside, ckpt, exports, remote, last_timestamp, rows,
                   file_name, ev>>

\* os.remove(file_path)
RemoveOk ==
    /\ pc = "remove"
    /\ exports' = exports \ {file_name}
    /\ Return("remove")
    /\ UNCHANGED <<Outside, ckpt, remote, last_timestamp, rows, file_name>>

RemoveFail ==
    /\ pc = "remove"
    /\ Raise("remove")
    /\ UNCHANGED <<Outside, ckpt, exports, remote, last_timestamp, rows,
                   file_name, ev>>

\* cnx.close() and the end of main(): exit status 0
CnxClose ==
    /\ pc = "cnx_close"
    /\ calls' = Append(calls, "cnx.close")
    /\ pc' = "done"
    /\ exit_status' = "0"
    /\ crashInfo' = NoCrash
    /\ UNCHANGED <<run, env, dirs, writes, db, ckpt, exports, remote, i,
                   last_timestamp, rows, file_name, attempted, failed,
                   firstRaised,
                   ev, ckpt0, exports0>>

\* the process is gone: its exit status has been collected, its locals and
\* the history of the run are cleared.  The files it left in EXPORT_DIR leave
\* the model: their names hold the time of the run, and no later run reads,
\* writes or removes them.
Cleared ==
    /\ exit_status' = "none"
    /\ exports' = {}
    /\ i' = 0
    /\ last_timestamp' = dt_min
    /\ rows' = {}
    /\ file_name' = NoName
    /\ calls' = <<>>
    /\ attempted' = <<>>
    /\ failed' = "none"
    /\ firstRaised' = 0
    /\ ev' = {}
    /\ ckpt0' = NoFile
    /\ exports0' = {}

\* the process that ended is gone; the files, the bucket and the database
\* stay as they are
ProcessEnds ==
    /\ pc \in Terminated
    /\ pc' = "idle"
    /\ Cleared
    /\ UNCHANGED <<run, env, dirs, writes, db, ckpt, remote, crashInfo>>

\* the process is terminated from outside while in main()
Kill ==
    /\ pc \in InMain
    /\ pc' = "idle"
    /\ crashInfo' = IF pc = "save" /\ "upload" \in ev
                     THEN [valid |-> TRUE, tbl |-> table_name,
                           last |-> last_timestamp,
                           ids |-> {r.id : r \in rows}]
                     ELSE NoCrash
    /\ Cleared
    /\ UNCHANGED <<run, env, dirs, writes, db, ckpt, remote>>

\* largest updated_at of a table, 0 when it is empty
MaxStamp(tbl) == SetMax({tbl[k] : k \in Ids} \cup {0})

\* the keys a write may touch: a row that exists (update), or the next free
\* key (insert)
Writable(tbl) ==
    {k \in Ids : tbl[k] # 0 \/ \A j \in Ids : j < k => tbl[j] # 0}

\* the environment inserts or updates a row; updated_at is not below any
\* updated_at of the table (the contract of the source tables): it is the
\* largest one, or the next value.  Writes are taken between runs: a write
\* during a run commutes with every step of the run but the query of its
\* table, so it is the same as a write just before or just after the run.
DbWrite ==
    /\ pc = "idle"
    /\ writes < MaxWrites
    /\ \E t \in TableSet :
         \E k \in Writable(db[t]), ts \in Stamps :
          /\ ts \in {MaxStamp(db[t]), MaxStamp(db[t]) + 1}
          /\ db[t][k] # ts
          /\ db' = [db EXCEPT ![t][k] = ts]
    /\ writes' = writes + 1
    /\ UNCHANGED <<pc, run, env, exit_status, dirs, ckpt, exports, remote,
                   i, last_timestamp, rows, file_name, calls, attempted, failed,
                   firstRaised, ev, ckpt0, exports0, crashInfo>>

Next ==
    \/ StartRun
    \/ ConfigExit
    \/ ConfigPass
    \/ AuthOk
    \/ AuthFail
    \/ ConnectOk
    \/ ConnectFail
    \/ NextTable
    \/ LoopEnd
    \/ GetLastTimestampOk
    \/ GetLastTimestampFail
    \/ ExecuteOk
    \/ ExecuteFail
    \/ NoNewData
    \/ NoNewDataCloseFail
    \/ ToCsvOk
    \/ ToCsvFail
    \/ UploadOk
    \/ UploadFail
    \/ SaveOk
    \/ SaveFail
    \/ CursorCloseOk
    \/ CursorCloseFail
    \/ RemoveOk
    \/ RemoveFail
    \/ CnxClose
    \/ ProcessEnds
    \/ Kill
    \/ DbWrite

Spec == Init /\ [][Next]_vars

SpecAnyEnv == InitAnyEnv /\ [][Next]_vars

\* ------------------------------------------------------------ properties
LoopBody == {"get_last_timestamp", "execute", "skip_close", "to_csv", "upload",
             "save", "cursor_close", "remove"}

\* a table is being processed, or its processing has just ended
AtTable == i > 0 /\ pc \in LoopBody \cup {"for"}

\* the processing of a table has just ended
TableEnded == i > 0 /\ pc = "for"

\* the objects of the bucket under the prefix of a table
ObjectsOf(t) == {o \in remote : o.key[1] = t}

\* an object of the bucket written by this run for the table
UploadedNow(t) ==
    \E o \in remote : o.key = destination_blob_name(t, FileName(t, Now))

RequiredMissing(e) ==
    \/ e["DB_HOST"] \in {None, ""}
    \/ e["DB_USER"] \in {None, ""}
    \/ e["DB_NAME"] \in {None, ""}
    \/ e["GCS_BUCKET_NAME"] \in {None, ""}

Count(seq, x) == Cardinality({k \in 1..Len(seq) : seq[k] = x})

\* C1: when the query of a table returns no row, the processing of that
\* table creates no export file, uploads nothing, and leaves the table's
\* checkpoint file as it was when the processing began.
C1_NoRowsNoEffect ==
    (AtTable /\ "execute" \in ev /\ rows = {}) =>
        /\ exports = exports0
        /\ ~UploadedNow(table_name)
        /\ ev \cap {"to_csv", "upload", "save"} = {}
        /\ ckpt[table_name] = ckpt0

\* C1 witness: a table that has a checkpoint and rows, none of them newer,
\* was skipped
C1_Witness ==
    /\ TableEnded
    /\ "skip_close" \in ev
    /\ rows = {}
    /\ ckpt0.exists
    /\ TableRows(db[table_name]) # {}

\* C2: when the processing of a table with a non-empty batch ends without
\* an exception, the checkpoint file holds the largest updated_at of the
\* exported rows, and that value is above the checkpoint that was read.
C2_CheckpointIsMax ==
    (TableEnded /\ failed = "none" /\ rows # {}) =>
        /\ ckpt[table_name].exists
        /\ ~get_last_timestamp_raises(ckpt[table_name])
        /\ \A r \in rows : r.updated_at <= get_last_timestamp(ckpt[table_name])
        /\ \E r \in rows : r.updated_at = get_last_timestamp(ckpt[table_name])
        /\ get_last_timestamp(ckpt[table_name]) > last_timestamp

\* C2 witness: a batch with two different timestamps was exported
C2_Witness ==
    /\ TableEnded
    /\ failed = "none"
    /\ Cardinality({r.updated_at : r \in rows}) >= 2

\* C3: a checkpoint file changes only in the checkpoint write of the table
\* being processed, after its export file was written and its upload
\* completed in this run (the bucket then holds the batch under the file's
\* key); and when the query, the serialization or the upload raised, the
\* table's checkpoint file is as it was when the processing began.
C3_CheckpointAfterUpload ==
    [][ /\ \A t \in TableSet :
              ckpt'[t] # ckpt[t] =>
                  /\ pc = "save"
                  /\ t = table_name
                  /\ {"to_csv", "upload"} \subseteq ev
                  /\ [key |-> destination_blob_name(t, file_name),
                      body |-> rows] \in remote
        /\ (AtTable /\ failed \in {"execute", "to_csv", "upload"})' =>
              (ckpt[table_name] = ckpt0)'
      ]_vars

\* C3 witness: an existing checkpoint was overwritten after the upload
C3_Witness ==
    /\ pc = "cursor_close"
    /\ {"upload", "save"} \subseteq ev
    /\ ckpt0.exists
    /\ ckpt[table_name] # ckpt0

\* C4: the tables are entered in the order of TABLES, each once, whatever
\* raised before; the connection is closed only after all of them were
\* entered, and the run then ends with status 0.
C4_EveryTableAttempted ==
    /\ attempted = SubSeq(TABLES, 1, Len(attempted))
    /\ Len(attempted) = i
    /\ pc \in {"cnx_close", "done"} => attempted = TABLES
    /\ pc = "done" =>
          /\ calls[Len(calls)] = "cnx.close"
          /\ exit_status = "0"

\* C4 witness: the run ended after the first table raised
C4_Witness ==
    /\ pc = "done"
    /\ firstRaised = 1
    /\ attempted = TABLES

\* C5: the run before was killed after the upload of a table and before its
\* checkpoint write: this run reads the checkpoint that run had read, and
\* its batch holds every key of that run's batch.
C5_ReexportAfterCrash ==
    (crashInfo.valid /\ AtTable /\ table_name = crashInfo.tbl) =>
        /\ "get_last_timestamp" \in ev => last_timestamp = crashInfo.last
        /\ "execute" \in ev => crashInfo.ids \subseteq {r.id : r \in rows}

\* C5 witness: the batch after the kill holds the killed run's rows and a
\* row written since
C5_Witness ==
    /\ crashInfo.valid
    /\ AtTable
    /\ table_name = crashInfo.tbl
    /\ "execute" \in ev
    /\ Cardinality(rows) > Cardinality(crashInfo.ids)

\* C6: when the run ends, no export file whose upload succeeded in the run
\* is left in EXPORT_DIR.
C6_UploadedArtifactRemoved ==
    pc = "done" =>
        \A t \in TableSet : UploadedNow(t) => FileName(t, Now) \notin exports

\* C7: when the processing of a table ends with an exception, its export
\* file is in EXPORT_DIR if it was the upload that raised, and is not there
\* if anything else raised.
C7_ArtifactOnFailure ==
    (TableEnded /\ failed # "none") =>
        IF failed = "upload"
        THEN file_name \in exports
        ELSE FileName(table_name, Now) \notin exports

\* C8: with DB_HOST, DB_USER, DB_NAME or GCS_BUCKET_NAME missing or empty the
\* script exits with status 1 and nothing else ever happens: no directory
\* is made, no client or connection is asked for, no table is entered, no
\* checkpoint, export file or object is written.  With those four set the
\* script never exits at the check, whatever DB_PASSWORD is.
C8_ConfigFailFast ==
    /\ RequiredMissing(env) =>
          /\ pc \in {"idle", "module", "exited"}
          /\ pc = "exited" => exit_status = "1"
          /\ dirs = FALSE
          /\ calls = <<>>
          /\ attempted = <<>>
          /\ \A t \in TableSet : ckpt[t] = NoFile
          /\ exports = {}
          /\ remote = {}
    /\ ~RequiredMissing(env) => pc # "exited"

\* C8 witness: the script exited with only the bucket name empty
C8_Witness ==
    /\ pc = "exited"
    /\ env["GCS_BUCKET_NAME"] = ""
    /\ \A n \in EnvNames \ {"GCS_BUCKET_NAME"} : env[n] = "set"

\* C9: after storage.Client() or connect() raised the run is over and no
\* table was entered, no export file or object was written; connect()
\* succeeds at most once in a run, and cnx.close() is called once, as the
\* last call, after every table was entered.
C9_FatalConnectivity ==
    /\ (calls # <<>> /\ calls[Len(calls)] \in {"storage.Client raised",
                                                "connect raised"}) =>
          /\ pc = "returned"
          /\ attempted = <<>>
          /\ i = 0
          /\ ev = {}
          /\ exports = {}
          /\ \A t \in TableSet : ~UploadedNow(t)
          /\ Count(calls, "connect") = 0
    /\ Count(calls, "connect") <= 1
    /\ Count(calls, "cnx.close") <= Count(calls, "connect")
    /\ Count(calls, "cnx.close") = 1 =>
          /\ pc = "done"
          /\ calls[Len(calls)] = "cnx.close"
          /\ attempted = TABLES
    /\ pc = "done" => Count(calls, "cnx.close") = 1

\* C9 witness: connect() raised in a run that found a checkpoint of an
\* earlier run
C9_Witness ==
    /\ pc = "returned"
    /\ calls[Len(calls)] = "connect raised"
    /\ \E t \in TableSet : ckpt[t].exists

\* C10: when the processing of a table ends without an exception, every
\* row of the table is in some object of the bucket.
C10_NoRowLost ==
    (TableEnded /\ failed = "none") =>
        TableRows(db[table_name])
            \subseteq UNION {o.body : o \in ObjectsOf(table_name)}

====
